---------------------------- MODULE Spec2Model ----------------------------
(***************************************************************************)
(* Forward and backward propagation of the simple recurrent cell and the   *)
(* LSTM cell of src/rnn_build.py, as a state machine: a caller holds the   *)
(* inputs (x, a0, parameters, da), calls the four sequence drivers, and    *)
(* every iteration of a driver's time loop is one step.                    *)
(*                                                                         *)
(* Numbers.  numpy's float64 entries are modelled as fixed-point integers  *)
(* in units of 1/Q: the integer k stands for k/Q.  Addition is exact, a    *)
(* product is rounded down to the grid, and tanh, sigmoid and exp are the  *)
(* real functions rounded to the grid (tables below).  A matrix is the     *)
(* sequence of its rows; a 3-d tensor of shape (n, m, T) is a record of    *)
(* its shape and the sequence of its T time slices, so that a tensor of    *)
(* time-length 0 still has its n and m.  Python indices are 0-based: the   *)
(* loop index t is kept 0-based and slice t is element t+1.                *)
(***************************************************************************)
EXTENDS Integers, Sequences, FiniteSets, TLC

\* ------------------------------------------------------------- bounds
\* Fixed-point resolution: the integer k stands for the real k/Q.
Q == 8
\* Hidden size, input size, output size and batch size of the inputs tried.
NA == 2
NX == 1
NY == 2
MB == 2
\* Longest input sequence tried (T_x ranges over 0..MaxT).
MaxT == 2

\* ------------------------------------------------------ scalar arithmetic
\* float product a*b on the fixed-point grid
Mul(u, v) == (u * v) \div Q

Abs(u) == IF u < 0 THEN -u ELSE u

Min(u, v) == IF u < v THEN u ELSE v

Max(u, v) == IF u < v THEN v ELSE u

\* round(tanh(k/8) * 8) for k = 0..14; tanh is odd and 8 (= 1.0) from there on
TanhTable == <<0, 1, 2, 3, 4, 4, 5, 6, 6, 6, 7, 7, 7, 7, 8>>

\* np.tanh on one entry
Tanh1(u) ==
    LET k == Min(Abs(u), Len(TanhTable) - 1)
        v == TanhTable[k + 1]
    IN  IF u < 0 THEN -v ELSE v

\* round(sigmoid(k/8) * 8) for k = 0..22; sigmoid(-z) = 1 - sigmoid(z)
SigmoidTable == <<4, 4, 4, 5, 5, 5, 5, 6, 6, 6, 6, 6, 7, 7, 7, 7, 7, 7, 7, 7, 7, 7, 8>>

\* rnn_utils.sigmoid on one entry: 1 / (1 + exp(-z))
Sigmoid1(u) ==
    LET k == Min(Abs(u), Len(SigmoidTable) - 1)
        v == SigmoidTable[k + 1]
    IN  IF u < 0 THEN Q - v ELSE v

\* round(exp(k/8) * 8) for k = -16..16; the argument is clipped to that range
ExpTable == <<1, 1, 1, 2, 2, 2, 2, 3, 3, 3, 4, 4, 5, 5, 6, 7, 8, 9, 10, 12, 13,
              15, 17, 19, 22, 25, 28, 32, 36, 41, 46, 52, 59>>

\* np.exp on one entry
Exp1(u) == ExpTable[Max(-16, Min(16, u)) + 17]

RECURSIVE SumSeq(_)
\* the sum of a sequence of numbers
SumSeq(s) == IF Len(s) = 0 THEN 0 ELSE s[1] + SumSeq(Tail(s))

\* ---------------------------------------------------------------- matrices
\* M.shape[0]
Rows(M) == Len(M)

\* M.shape[1]
Cols(M) == IF Len(M) = 0 THEN 0 ELSE Len(M[1])

\* np.zeros((r, c))
Zeros(r, c) == [i \in 1..r |-> [j \in 1..c |-> 0]]

\* M.T
Transpose(M) == [j \in 1..Cols(M) |-> [i \in 1..Rows(M) |-> M[i][j]]]

\* np.matmul(A, B) and np.dot(A, B) of two matrices
MatMul(A, B) ==
    [i \in 1..Rows(A) |-> [j \in 1..Cols(B) |->
        SumSeq([k \in 1..Cols(A) |-> Mul(A[i][k], B[k][j])])]]

\* The entry of M that numpy's broadcasting reads at (i, j): a dimension of
\* size 1 is repeated.
BEntry(M, i, j) ==
    M[IF Rows(M) = 1 THEN 1 ELSE i][IF Cols(M) = 1 THEN 1 ELSE j]

\* A + B with numpy broadcasting (a bias of shape (n, 1) is added to each column)
MatAdd(A, B) ==
    [i \in 1..Max(Rows(A), Rows(B)) |-> [j \in 1..Max(Cols(A), Cols(B)) |->
        BEntry(A, i, j) + BEntry(B, i, j)]]

\* A * B, the elementwise product, with numpy broadcasting
MatMulElem(A, B) ==
    [i \in 1..Max(Rows(A), Rows(B)) |-> [j \in 1..Max(Cols(A), Cols(B)) |->
        Mul(BEntry(A, i, j), BEntry(B, i, j))]]

\* 1 - M
OneMinus(M) == [i \in 1..Rows(M) |-> [j \in 1..Cols(M) |-> Q - M[i][j]]]

\* M ** 2 and np.square(M)
Square(M) == MatMulElem(M, M)

\* np.tanh(M)
TanhM(M) == [i \in 1..Rows(M) |-> [j \in 1..Cols(M) |-> Tanh1(M[i][j])]]

\* sigmoid(M)
SigmoidM(M) == [i \in 1..Rows(M) |-> [j \in 1..Cols(M) |-> Sigmoid1(M[i][j])]]

\* softmax(M): each column is normalised on its own
Softmax(M) ==
    [i \in 1..Rows(M) |-> [j \in 1..Cols(M) |->
        (Exp1(M[i][j]) * Q) \div SumSeq([k \in 1..Rows(M) |-> Exp1(M[k][j])])]]

\* np.sum(M, axis = 1, keepdims = True)
RowSum(M) == [i \in 1..Rows(M) |-> <<SumSeq(M[i])>>]

\* M[:, :n]
ColsTo(M, n) == [i \in 1..Rows(M) |-> [j \in 1..n |-> M[i][j]]]

\* M[:, :Cols(M) - n]: a split that takes the input block from the left.
ColsFromLeft(M, n) == [i \in 1..Rows(M) |-> [j \in 1..(Cols(M) - n) |-> M[i][j]]]

\* M[:, n:]
ColsFrom(M, n) == [i \in 1..Rows(M) |-> [j \in 1..(Cols(M) - n) |-> M[i][j + n]]]

\* np.matmul(A, B) raises ValueError unless the inner dimensions agree
CanMatMul(A, B) == Cols(A) = Rows(B)

\* A + B and A * B raise ValueError unless, in each dimension, the sizes are
\* equal or one of them is 1
CanBroadcast(A, B) ==
    /\ Rows(A) = Rows(B) \/ Rows(A) = 1 \/ Rows(B) = 1
    /\ Cols(A) = Cols(B) \/ Cols(A) = 1 \/ Cols(B) = 1

\* target[...] = V into a target block of shape (nr, nc) raises ValueError unless
\* V can be broadcast to that shape
CanAssign(nr, nc, V) ==
    /\ Rows(V) = nr \/ Rows(V) = 1
    /\ Cols(V) = nc \/ Cols(V) = 1

\* ----------------------------------------------------------- 3-d tensors
\* np.zeros((n, m, T))
Zeros3(n, m, T) == [shape |-> <<n, m, T>>, s |-> [k \in 1..T |-> Zeros(n, m)]]

\* the time-length X.shape[2]
TLen(X) == X.shape[3]

\* X[:, :, t]
Slice(X, tt) == X.s[tt + 1]

\* An assignment that counts the slice from the end of the time axis.
SetSliceMirrored(X, tt, V) == [X EXCEPT !.s[Len(X.s) - tt] = V]

\* X[:, :, t] = V
SetSlice(X, tt, V) == [X EXCEPT !.s[tt + 1] = V]

\* ------------------------------------------------------------------ cells
\* rnn_cell_forward(xt, a_prev, parameters): (a_next, yt_pred, cache)
RnnCellForward(xt, a_prev, p) ==
    LET Wax == p.Wax
        Waa == p.Waa
        Wya == p.Wya
        ba == p.ba
        by == p.by
        a_nextv == TanhM(MatAdd(MatAdd(MatMul(Wax, xt), MatMul(Waa, a_prev)), ba))
        yt_pred == Softmax(MatAdd(MatMul(Wya, a_nextv), by))
    IN  [a_next |-> a_nextv, yt_pred |-> yt_pred,
         cache |-> <<a_nextv, a_prev, xt, p>>]

\* concat = np.zeros((n_a + n_x, m)); concat[: n_a, :] = a_prev; concat[n_a :, :] = xt
\* (m is xt.shape[1]; the slice assignment broadcasts a_prev to (n_a, m))
ConcatForward(a_prev, xt, n_a, n_x) ==
    [i \in 1..(n_a + n_x) |->
        IF i <= n_a THEN [j \in 1..Cols(xt) |-> BEntry(a_prev, i, j)] ELSE xt[i - n_a]]

\* lstm_cell_forward(xt, a_prev, c_prev, parameters): (a_next, c_next, yt_pred, cache)
LstmCellForward(xt, a_prev, c_prev, p) ==
    LET n_x == Rows(xt)
        n_a == Cols(p.Wy)
        concat == ConcatForward(a_prev, xt, n_a, n_x)
        ft == SigmoidM(MatAdd(MatMul(p.Wf, concat), p.bf))
        it == SigmoidM(MatAdd(MatMul(p.Wi, concat), p.bi))
        cct == TanhM(MatAdd(MatMul(p.Wc, concat), p.bc))
        c_nextv == MatAdd(MatMulElem(ft, c_prev), MatMulElem(it, cct))
        ot == SigmoidM(MatAdd(MatMul(p.Wo, concat), p.bo))
        a_nextv == MatMulElem(ot, TanhM(c_nextv))
        yt_pred == Softmax(MatAdd(MatMul(p.Wy, a_nextv), p.by))
    IN  [a_next |-> a_nextv, c_next |-> c_nextv, yt_pred |-> yt_pred,
         cache |-> <<a_nextv, c_nextv, a_prev, c_prev, ft, it, cct, ot, xt, p>>]

\* rnn_cell_forward(xt, a_prev, parameters) runs to its return statement: none
\* of its numpy operations raises ValueError
RnnCellForwardOk(xt, a_prev, p) ==
    /\ CanMatMul(p.Wax, xt)
    /\ CanMatMul(p.Waa, a_prev)
    /\ CanBroadcast(MatMul(p.Wax, xt), MatMul(p.Waa, a_prev))
    /\ CanBroadcast(MatAdd(MatMul(p.Wax, xt), MatMul(p.Waa, a_prev)), p.ba)
    /\ LET a_nextv == MatAdd(MatAdd(MatMul(p.Wax, xt), MatMul(p.Waa, a_prev)), p.ba)
       IN  /\ CanMatMul(p.Wya, a_nextv)
           /\ CanBroadcast(MatMul(p.Wya, a_nextv), p.by)

\* np.matmul(W, concat) + b of one gate can be computed
GateOk(W, concat, b) == CanMatMul(W, concat) /\ CanBroadcast(MatMul(W, concat), b)

\* lstm_cell_forward(xt, a_prev, c_prev, parameters) runs to its return
\* statement: none of its numpy operations raises ValueError
LstmCellForwardOk(xt, a_prev, c_prev, p) ==
    LET n_x == Rows(xt)
        m == Cols(xt)
        n_a == Cols(p.Wy)
        concat == ConcatForward(a_prev, xt, n_a, n_x)
        ft == MatAdd(MatMul(p.Wf, concat), p.bf)
        it == MatAdd(MatMul(p.Wi, concat), p.bi)
        cct == MatAdd(MatMul(p.Wc, concat), p.bc)
        ot == MatAdd(MatMul(p.Wo, concat), p.bo)
    IN  /\ CanAssign(n_a, m, a_prev)
        /\ GateOk(p.Wf, concat, p.bf)
        /\ GateOk(p.Wi, concat, p.bi)
        /\ GateOk(p.Wc, concat, p.bc)
        /\ CanBroadcast(ft, c_prev)
        /\ CanBroadcast(it, cct)
        /\ CanBroadcast(MatMulElem(ft, c_prev), MatMulElem(it, cct))
        /\ GateOk(p.Wo, concat, p.bo)
        /\ LET c_nextv == MatAdd(MatMulElem(ft, c_prev), MatMulElem(it, cct))
           IN  /\ CanBroadcast(ot, c_nextv)
               /\ GateOk(p.Wy, MatMulElem(ot, c_nextv), p.by)

\* rnn_cell_backward(da_next, cache): the gradients dictionary
RnnCellBackward(da_next, cache) ==
    LET a_nextv == cache[1]
        a_prev == cache[2]
        xt == cache[3]
        p == cache[4]
        dtanh == MatMulElem(OneMinus(Square(a_nextv)), da_next)
    IN  [dxt |-> MatMul(Transpose(p.Wax), dtanh),
         dWax |-> MatMul(dtanh, Transpose(xt)),
         da_prev |-> MatMul(Transpose(p.Waa), dtanh),
         dWaa |-> MatMul(dtanh, Transpose(a_prev)),
         dba |-> RowSum(dtanh)]

\* np.concatenate((a_prev, xt), axis = 0)
ConcatBackward(a_prev, xt) == a_prev \o xt

\* lstm_cell_backward(da_next, dc_next, cache): the gradients dictionary
LstmCellBackward(da_next, dc_next, cache) ==
    LET c_nextv == cache[2]
        a_prev == cache[3]
        c_prev == cache[4]
        ft == cache[5]
        it == cache[6]
        cct == cache[7]
        ot == cache[8]
        xt == cache[9]
        p == cache[10]
        n_a == Rows(cache[1])
        tanhc == TanhM(c_nextv)
        \* da_next * ot * (1 - np.square(np.tanh(c_next)))
        through == MatMulElem(MatMulElem(da_next, ot), OneMinus(Square(tanhc)))
        dot == MatMulElem(MatMulElem(MatMulElem(da_next, tanhc), ot), OneMinus(ot))
        dcct == MatMulElem(
                    MatAdd(MatMulElem(dc_next, it),
                           MatMulElem(MatMulElem(MatMulElem(ot, OneMinus(Square(tanhc))), it),
                                      da_next)),
                    OneMinus(Square(cct)))
        dit == MatMulElem(MatMulElem(MatMulElem(MatAdd(dc_next, through), cct), it),
                          OneMinus(it))
        dft == MatMulElem(MatMulElem(MatMulElem(MatAdd(dc_next, through), c_prev), ft),
                          OneMinus(ft))
        concatT == Transpose(ConcatBackward(a_prev, xt))
    IN  [dxt |-> MatAdd(MatAdd(MatAdd(MatMul(Transpose(ColsFrom(p.Wf, n_a)), dft),
                                      MatMul(Transpose(ColsFrom(p.Wi, n_a)), dit)),
                               MatMul(Transpose(ColsFrom(p.Wc, n_a)), dcct)),
                        MatMul(Transpose(ColsFrom(p.Wo, n_a)), dot)),
         da_prev |-> MatAdd(MatAdd(MatAdd(MatMul(Transpose(ColsTo(p.Wf, n_a)), dft),
                                          MatMul(Transpose(ColsTo(p.Wi, n_a)), dit)),
                                   MatMul(Transpose(ColsTo(p.Wc, n_a)), dcct)),
                            MatMul(Transpose(ColsTo(p.Wo, n_a)), dot)),
         dc_prev |-> MatMulElem(MatAdd(dc_next, through), ft),
         dWf |-> MatMul(dft, concatT), dbf |-> RowSum(dft),
         dWi |-> MatMul(dit, concatT), dbi |-> RowSum(dit),
         dWc |-> MatMul(dcct, concatT), dbc |-> RowSum(dcct),
         dWo |-> MatMul(dot, concatT), dbo |-> RowSum(dot)]

\* ------------------------------------------------------------------ state
VARIABLES
    x,            \* the caller's input tensor, shape (n_x, m, T_x)
    a0,           \* the caller's initial hidden state, shape (n_a, m)
    parameters,   \* the caller's parameter dictionary
    da,           \* the upstream gradient passed to the running or last backward call
    fwd,          \* what the caller holds of its last forward call: the cell kind and (caches, x)
    pc,           \* the operation in progress, or "idle"
    t,            \* the loop index of the operation in progress
    a_next,       \* local a_next of a forward driver
    c_next,       \* local c_next of lstm_forward
    a,            \* local a of a forward driver
    c,            \* local c of lstm_forward
    y_pred,       \* local y_pred (rnn_forward) or y (lstm_forward)
    caches,       \* local list of per-step caches of the driver in progress
    dx,           \* local dx of a backward driver
    dW,           \* the local parameter-gradient accumulators of a backward driver
    da_prevt,     \* local da_prevt of a backward driver
    dc_prevt,     \* local dc_prevt of lstm_backward
    gradients,    \* local gradients of a backward driver: the last per-step dictionary
    ret,          \* the outcome of the last call: its return value or the exception raised
    calls         \* history: the cell calls made by the running or last driver, in order

vars == <<x, a0, parameters, da, fwd, pc, t, a_next, c_next, a, c, y_pred, caches,
          dx, dW, da_prevt, dc_prevt, gradients, ret, calls>>

callerVars == <<x, a0, parameters>>

forwardLocals == <<a_next, c_next, a, c, y_pred>>

backwardLocals == <<dx, dW, da_prevt, dc_prevt, gradients>>

\* A local that holds no matrix, no tensor, no dictionary (outside its driver).
NoMat == <<>>

NoTensor == [shape |-> <<0, 0, 0>>, s |-> <<>>]

NoDict == [unbound |-> TRUE]

NoRet == [op |-> "none", status |-> "none"]

NoFwd == [kind |-> "none"]

\* -------------------------------------------------------------- inputs tried
\* A matrix of shape (r, c) with entries between -3/4 and 3/4; k picks the pattern.
Pat(nr, nc, k) ==
    [i \in 1..nr |-> [j \in 1..nc |-> (((3 * i + 5 * j + k) % 7) - 3) * (Q \div 4)]]

\* The time slices an input x is built from.
XSlices == {Pat(NX, MB, 1), Pat(NX, MB, 4)}

\* The time slices an upstream gradient da is built from.
DaSlices == {Pat(NA, MB, 2), Pat(NA, MB, 6)}

\* All tensors of shape (n, m, T), T in lens, whose slices are drawn from slices.
Tensors(n, m, lens, slices) ==
    UNION {{[shape |-> <<n, m, T>>, s |-> ss] : ss \in [1..T -> slices]} : T \in lens}

XSet == Tensors(NX, MB, 0..MaxT, XSlices)

\* da may be shorter or longer than the forward pass it is used with.
DaSet == Tensors(NA, MB, 0..(MaxT + 1), DaSlices)

A0Set == {Zeros(NA, MB), Pat(NA, MB, 3)}

\* A parameter dictionary with the keys of both cells; k picks the values.
Params(k) ==
    [Wax |-> Pat(NA, NX, k),      Waa |-> Pat(NA, NA, k + 1),
     Wya |-> Pat(NY, NA, k + 2),  ba  |-> Pat(NA, 1, k + 3),
     by  |-> Pat(NY, 1, k + 4),
     Wf  |-> Pat(NA, NA + NX, k + 5),  bf |-> Pat(NA, 1, k + 6),
     Wi  |-> Pat(NA, NA + NX, k + 7),  bi |-> Pat(NA, 1, k + 8),
     Wc  |-> Pat(NA, NA + NX, k + 9),  bc |-> Pat(NA, 1, k + 10),
     Wo  |-> Pat(NA, NA + NX, k + 11), bo |-> Pat(NA, 1, k + 12),
     Wy  |-> Pat(NY, NA, k + 13)]

ParamSet == {Params(0), Params(2)}

Init ==
    /\ x \in XSet
    /\ a0 \in A0Set
    /\ parameters \in ParamSet
    /\ da = NoTensor
    /\ fwd = NoFwd
    /\ pc = "idle"
    /\ t = 0
    /\ a_next = NoMat /\ c_next = NoMat
    /\ a = NoTensor /\ c = NoTensor /\ y_pred = NoTensor
    /\ caches = <<>>
    /\ dx = NoTensor /\ dW = NoDict
    /\ da_prevt = NoMat /\ dc_prevt = NoMat
    /\ gradients = NoDict
    /\ ret = NoRet
    /\ calls = <<>>

\* The locals of a driver once it has returned or raised.
Leave ==
    /\ pc' = "idle"
    /\ t' = 0
    /\ a_next' = NoMat /\ c_next' = NoMat
    /\ a' = NoTensor /\ c' = NoTensor /\ y_pred' = NoTensor
    /\ caches' = <<>>
    /\ dx' = NoTensor /\ dW' = NoDict
    /\ da_prevt' = NoMat /\ dc_prevt' = NoMat
    /\ gradients' = NoDict

\* ------------------------------------------------- the cell-forward calls
\* The operands a caller hands to a cell directly: of the documented shapes, with
\* a batch or row dimension of size 1, or with one row too many.
XtTried == {Pat(NX, MB, 1), Pat(NX, 1, 1), Pat(NX + 1, MB, 1)}

APrevTried == {Pat(NA, MB, 3), Pat(NA, 1, 3), Pat(1, MB, 3), Pat(NA + 1, MB, 3)}

CPrevTried == {Pat(NA, MB, 5), Pat(NA, 1, 5)}

BiasTried(b) == {b, Pat(1, 1, 2), Pat(Rows(b) + 1, 1, 2)}

\* The argument lists tried for rnn_cell_forward: at most one operand deviates.
RnnCellArgsTried(p) ==
    LET xt0 == Pat(NX, MB, 1)
        ap0 == Pat(NA, MB, 3)
    IN  {[xt |-> v, a_prev |-> ap0, parameters |-> p] : v \in XtTried}
        \cup {[xt |-> xt0, a_prev |-> v, parameters |-> p] : v \in APrevTried}
        \cup {[xt |-> xt0, a_prev |-> ap0, parameters |-> [p EXCEPT !.ba = b]] :
                  b \in BiasTried(p.ba)}

\* The argument lists tried for lstm_cell_forward: at most one operand deviates.
LstmCellArgsTried(p) ==
    LET xt0 == Pat(NX, MB, 1)
        ap0 == Pat(NA, MB, 3)
        cp0 == Pat(NA, MB, 5)
    IN  {[xt |-> v, a_prev |-> ap0, c_prev |-> cp0, parameters |-> p] : v \in XtTried}
        \cup {[xt |-> xt0, a_prev |-> v, c_prev |-> cp0, parameters |-> p] :
                  v \in APrevTried}
        \cup {[xt |-> xt0, a_prev |-> ap0, c_prev |-> v, parameters |-> p] :
                  v \in CPrevTried}
        \cup {[xt |-> xt0, a_prev |-> ap0, c_prev |-> cp0,
               parameters |-> [p EXCEPT !.bf = b]] : b \in BiasTried(p.bf)}

\* a_next, yt_pred, cache = rnn_cell_forward(xt, a_prev, parameters), called by
\* the caller itself, before its first sequence call (as check_rnn_forward does):
\* it returns, or numpy raises ValueError
CallRnnCellForward ==
    /\ pc = "idle"
    /\ fwd = NoFwd
    /\ \E args \in RnnCellArgsTried(parameters) :
          /\ calls' = <<[fn |-> "rnn_cell_forward", t |-> 0, xt |-> args.xt,
                         a_prev |-> args.a_prev, parameters |-> args.parameters]>>
          /\ ret' = IF RnnCellForwardOk(args.xt, args.a_prev, args.parameters)
                    THEN LET r == RnnCellForward(args.xt, args.a_prev, args.parameters)
                         IN  [op |-> "rnn_cell_forward", status |-> "ok",
                              a_next |-> r.a_next, yt_pred |-> r.yt_pred,
                              cache |-> r.cache]
                    ELSE [op |-> "rnn_cell_forward", status |-> "ValueError"]
    /\ UNCHANGED <<callerVars, da, fwd, pc, t, forwardLocals, caches, backwardLocals>>

\* a_next, c_next, yt, cache = lstm_cell_forward(xt, a_prev, c_prev, parameters),
\* called by the caller itself, before its first sequence call (as
\* check_lstm_forward does): it returns, or numpy raises ValueError
CallLstmCellForward ==
    /\ pc = "idle"
    /\ fwd = NoFwd
    /\ \E args \in LstmCellArgsTried(parameters) :
          /\ calls' = <<[fn |-> "lstm_cell_forward", t |-> 0, xt |-> args.xt,
                         a_prev |-> args.a_prev, c_prev |-> args.c_prev,
                         parameters |-> args.parameters]>>
          /\ ret' = IF LstmCellForwardOk(args.xt, args.a_prev, args.c_prev,
                                         args.parameters)
                    THEN LET r == LstmCellForward(args.xt, args.a_prev, args.c_prev,
                                                  args.parameters)
                         IN  [op |-> "lstm_cell_forward", status |-> "ok",
                              a_next |-> r.a_next, c_next |-> r.c_next,
                              yt_pred |-> r.yt_pred, cache |-> r.cache]
                    ELSE [op |-> "lstm_cell_forward", status |-> "ValueError"]
    /\ UNCHANGED <<callerVars, da, fwd, pc, t, forwardLocals, caches, backwardLocals>>

\* ------------------------------------------------------------- rnn_forward
\* A driver that restarts every step from a0 instead of threading a_next.
RnnForwardArgsFromA0(xx, tt, a_nextv) == [xt |-> Slice(xx, tt), a_prev |-> a0]

\* The arguments of the rnn_cell_forward call of step t.
RnnForwardArgs(xx, tt, a_nextv) == [xt |-> Slice(xx, tt), a_prev |-> a_nextv]

\* rnn_forward(x, a0, parameters), up to the time loop
CallRnnForward ==
    /\ pc = "idle"
    /\ pc' = "rnn_forward"
    /\ caches' = <<>>
    /\ LET n_x == x.shape[1]
           m == x.shape[2]
           T_x == x.shape[3]
           n_y == Rows(parameters.Wya)
           n_a == Cols(parameters.Wya)
       IN  /\ a' = Zeros3(n_a, m, T_x)
           /\ y_pred' = Zeros3(n_y, m, T_x)
    /\ a_next' = a0
    /\ t' = 0
    /\ calls' = <<>>
    /\ ret' = NoRet
    /\ da' = NoTensor
    /\ UNCHANGED <<callerVars, fwd, c_next, c, backwardLocals>>

\* A loop whose first iteration stores the new state into the array a_next is
\* bound to, which after a_next = a0 is the caller's a0.
RnnForwardStepInPlace ==
    /\ pc = "rnn_forward"
    /\ t < TLen(x)
    /\ LET args == RnnForwardArgs(x, t, a_next)
           r == RnnCellForward(args.xt, args.a_prev, parameters)
       IN  /\ a_next' = r.a_next
           /\ a0' = IF t = 0 THEN r.a_next ELSE a0
           /\ a' = SetSlice(a, t, r.a_next)
           /\ y_pred' = SetSlice(y_pred, t, r.yt_pred)
           /\ caches' = Append(caches, r.cache)
           /\ calls' = Append(calls, [fn |-> "rnn_cell_forward", t |-> t,
                                      xt |-> args.xt, a_prev |-> args.a_prev,
                                      a_next |-> r.a_next, cache |-> r.cache])
    /\ t' = t + 1
    /\ UNCHANGED <<x, parameters, da, fwd, pc, c_next, c, backwardLocals, ret>>

\* one iteration of rnn_forward's loop over range(T_x)
RnnForwardStep ==
    /\ pc = "rnn_forward"
    /\ t < TLen(x)
    /\ LET args == RnnForwardArgs(x, t, a_next)
           r == RnnCellForward(args.xt, args.a_prev, parameters)
       IN  /\ a_next' = r.a_next
           /\ a' = SetSlice(a, t, r.a_next)
           /\ y_pred' = SetSlice(y_pred, t, r.yt_pred)
           /\ caches' = Append(caches, r.cache)
           /\ calls' = Append(calls, [fn |-> "rnn_cell_forward", t |-> t,
                                      xt |-> args.xt, a_prev |-> args.a_prev,
                                      a_next |-> r.a_next, cache |-> r.cache])
    /\ t' = t + 1
    /\ UNCHANGED <<callerVars, da, fwd, pc, c_next, c, backwardLocals, ret>>

\* rnn_forward after the loop: caches = (caches, x); return a, y_pred, caches
RnnForwardReturn ==
    /\ pc = "rnn_forward"
    /\ t >= TLen(x)
    /\ ret' = [op |-> "rnn_forward", status |-> "ok", a |-> a, y_pred |-> y_pred,
               caches |-> <<caches, x>>]
    /\ fwd' = [kind |-> "rnn", caches |-> <<caches, x>>]
    /\ Leave
    /\ UNCHANGED <<callerVars, da, calls>>

\* ------------------------------------------------------------ lstm_forward
\* A driver that starts the cell state from the hidden state instead of zero.
LstmInitialCFromA(a_nextv) == a_nextv

\* c_next = np.zeros(a_next.shape)
LstmInitialC(a_nextv) == Zeros(Rows(a_nextv), Cols(a_nextv))

\* A driver that feeds every step the first time slice of x.
LstmForwardArgsFirstSlice(xx, tt, a_nextv, c_nextv) ==
    [xt |-> Slice(xx, 0), a_prev |-> a_nextv, c_prev |-> c_nextv]

\* The arguments of the lstm_cell_forward call of step t.
LstmForwardArgs(xx, tt, a_nextv, c_nextv) ==
    [xt |-> Slice(xx, tt), a_prev |-> a_nextv, c_prev |-> c_nextv]

\* lstm_forward(x, a0, parameters), up to the time loop
CallLstmForward ==
    /\ pc = "idle"
    /\ pc' = "lstm_forward"
    /\ caches' = <<>>
    /\ LET n_x == x.shape[1]
           m == x.shape[2]
           T_x == x.shape[3]
           n_y == Rows(parameters.Wy)
           n_a == Cols(parameters.Wy)
       IN  /\ a' = Zeros3(n_a, m, T_x)
           /\ c' = Zeros3(n_a, m, T_x)
           /\ y_pred' = Zeros3(n_y, m, T_x)
    /\ a_next' = a0
    /\ c_next' = LstmInitialC(a0)
    /\ t' = 0
    /\ calls' = <<>>
    /\ ret' = NoRet
    /\ da' = NoTensor
    /\ UNCHANGED <<callerVars, fwd, backwardLocals>>

\* one iteration of lstm_forward's loop over range(T_x)
LstmForwardStep ==
    /\ pc = "lstm_forward"
    /\ t < TLen(x)
    /\ LET args == LstmForwardArgs(x, t, a_next, c_next)
           r == LstmCellForward(args.xt, args.a_prev, args.c_prev, parameters)
       IN  /\ a_next' = r.a_next
           /\ c_next' = r.c_next
           /\ a' = SetSlice(a, t, r.a_next)
           /\ y_pred' = SetSlice(y_pred, t, r.yt_pred)
           /\ c' = SetSlice(c, t, r.c_next)
           /\ caches' = Append(caches, r.cache)
           /\ calls' = Append(calls, [fn |-> "lstm_cell_forward", t |-> t,
                                      xt |-> args.xt, a_prev |-> args.a_prev,
                                      c_prev |-> args.c_prev, a_next |-> r.a_next,
                                      c_next |-> r.c_next, cache |-> r.cache])
    /\ t' = t + 1
    /\ UNCHANGED <<callerVars, da, fwd, pc, backwardLocals, ret>>

\* lstm_forward after the loop: caches = (caches, x); return a, y, c, caches
LstmForwardReturn ==
    /\ pc = "lstm_forward"
    /\ t >= TLen(x)
    /\ ret' = [op |-> "lstm_forward", status |-> "ok", a |-> a, y |-> y_pred, c |-> c,
               caches |-> <<caches, x>>]
    /\ fwd' = [kind |-> "lstm", caches |-> <<caches, x>>]
    /\ Leave
    /\ UNCHANGED <<callerVars, da, calls>>

\* ------------------------------------------------------------ rnn_backward
\* A driver ends by raising the exception exc: nothing is returned.
Raise(opname, exc) ==
    /\ ret' = [op |-> opname, status |-> exc]
    /\ Leave

\* A driver that drops the gradient propagated from step t+1.
RnnBackwardArgsUnchained(dav, tt, da_prevtv, cachesv) ==
    [da_next |-> Slice(dav, tt), cache |-> cachesv[tt + 1]]

\* The arguments of the rnn_cell_backward call of step t.
RnnBackwardArgs(dav, tt, da_prevtv, cachesv) ==
    [da_next |-> MatAdd(Slice(dav, tt), da_prevtv), cache |-> cachesv[tt + 1]]

\* acc = g: each step overwrites the accumulator.
AccumulateOverwrites(acc, g) == g

\* The step's contribution is not added.
AccumulateDrops(acc, g) == acc

\* acc += g
Accumulate(acc, g) == MatAdd(acc, g)

\* da0 = da_prevt, over the da0 = np.zeros((n_a, m)) of the initialisation
RnnBackwardDa0(da0v, da_prevtv) == da_prevtv

\* rnn_backward(da, caches), up to the time loop; the caller passes the cache of
\* its last rnn_forward and any da
CallRnnBackward ==
    /\ pc = "idle"
    /\ fwd.kind = "rnn"
    /\ \E d \in DaSet : da' = d
    /\ calls' = <<>>
    /\ IF Len(fwd.caches[1]) = 0
       THEN \* caches[0] of an empty list
            /\ Raise("rnn_backward", "IndexError")
       ELSE LET x1 == fwd.caches[1][1][3]
                n_a == da'.shape[1]
                T_x == da'.shape[3]
                n_x == Rows(x1)
                m == Cols(x1)
            IN  /\ pc' = "rnn_backward"
                /\ caches' = fwd.caches[1]
                /\ dx' = Zeros3(n_x, m, T_x)
                /\ dW' = [dWax |-> Zeros(n_a, n_x), dWaa |-> Zeros(n_a, n_a),
                          dba |-> Zeros(n_a, 1), da0 |-> Zeros(n_a, m)]
                /\ da_prevt' = Zeros(n_a, m)
                /\ t' = T_x - 1
                /\ ret' = NoRet
                /\ UNCHANGED <<forwardLocals, dc_prevt, gradients>>
    /\ UNCHANGED <<callerVars, fwd>>

\* one iteration of rnn_backward's loop over reversed(range(T_x))
RnnBackwardStep ==
    /\ pc = "rnn_backward"
    /\ t >= 0
    /\ IF t >= Len(caches) \/ t >= TLen(da)
       THEN \* caches[t] (or da[:, :, t]) out of range
            /\ Raise("rnn_backward", "IndexError")
            /\ UNCHANGED calls
       ELSE LET args == RnnBackwardArgs(da, t, da_prevt, caches)
                g == RnnCellBackward(args.da_next, args.cache)
            IN  /\ gradients' = g
                /\ da_prevt' = g.da_prev
                /\ dx' = SetSlice(dx, t, g.dxt)
                /\ dW' = [dW EXCEPT !.dWax = Accumulate(@, g.dWax),
                                    !.dWaa = Accumulate(@, g.dWaa),
                                    !.dba = Accumulate(@, g.dba)]
                /\ calls' = Append(calls, [fn |-> "rnn_cell_backward", t |-> t,
                                           da_next |-> args.da_next,
                                           cache |-> args.cache, gradients |-> g])
                /\ t' = t - 1
                /\ UNCHANGED <<pc, forwardLocals, caches, dc_prevt, ret>>
    /\ UNCHANGED <<callerVars, da, fwd>>

\* rnn_backward after the loop: da0 = da_prevt; return the gradients dictionary
RnnBackwardReturn ==
    /\ pc = "rnn_backward"
    /\ t < 0
    /\ ret' = [op |-> "rnn_backward", status |-> "ok", dx |-> dx,
               da0 |-> RnnBackwardDa0(dW.da0, da_prevt),
               dWax |-> dW.dWax, dWaa |-> dW.dWaa, dba |-> dW.dba]
    /\ Leave
    /\ UNCHANGED <<callerVars, da, fwd, calls>>

\* ----------------------------------------------------------- lstm_backward
\* A driver that takes the loop's length from the cache list instead of da.
LstmBackwardTxFromCaches(dav, cachesv) == Len(cachesv)

\* n_a, m, T_x = da.shape: the number of iterations of the backward loop
LstmBackwardTx(dav, cachesv) == TLen(dav)

\* A driver that hands every step the last per-step cache (caches[-1]).
LstmBackwardArgsLastCache(dav, tt, dc_prevtv, cachesv) ==
    [da_next |-> Slice(dav, tt), dc_next |-> dc_prevtv, cache |-> cachesv[Len(cachesv)]]

\* The arguments of the lstm_cell_backward call of step t.
LstmBackwardArgs(dav, tt, dc_prevtv, cachesv) ==
    [da_next |-> Slice(dav, tt), dc_next |-> dc_prevtv, cache |-> cachesv[tt + 1]]

\* lstm_backward(da, caches), up to the time loop; the caller passes the cache of
\* its last lstm_forward and any da
CallLstmBackward ==
    /\ pc = "idle"
    /\ fwd.kind = "lstm"
    /\ \E d \in DaSet : da' = d
    /\ calls' = <<>>
    /\ IF Len(fwd.caches[1]) = 0
       THEN \* caches[0] of an empty list
            /\ Raise("lstm_backward", "IndexError")
       ELSE LET x1 == fwd.caches[1][1][9]
                n_a == da'.shape[1]
                T_x == LstmBackwardTx(da', fwd.caches[1])
                n_x == Rows(x1)
                m == Cols(x1)
            IN  /\ pc' = "lstm_backward"
                /\ caches' = fwd.caches[1]
                /\ dx' = Zeros3(n_x, m, T_x)
                /\ da_prevt' = Zeros(n_a, m)
                /\ dc_prevt' = Zeros(n_a, m)
                /\ dW' = [da0 |-> Zeros(n_a, m),
                          dWf |-> Zeros(n_a, n_a + n_x), dWi |-> Zeros(n_a, n_a + n_x),
                          dWc |-> Zeros(n_a, n_a + n_x), dWo |-> Zeros(n_a, n_a + n_x),
                          dbf |-> Zeros(n_a, 1), dbi |-> Zeros(n_a, 1),
                          dbc |-> Zeros(n_a, 1), dbo |-> Zeros(n_a, 1)]
                /\ gradients' = NoDict
                /\ t' = T_x - 1
                /\ ret' = NoRet
                /\ UNCHANGED forwardLocals
    /\ UNCHANGED <<callerVars, fwd>>

\* The body of lstm_backward's loop, given the arguments of its cell call: the
\* loop assigns neither da_prevt nor dc_prevt.
LstmBackwardIter(args) ==
    LET g == LstmCellBackward(args.da_next, args.dc_next, args.cache)
    IN  /\ gradients' = g
        /\ dx' = SetSlice(dx, t, g.dxt)
        /\ dW' = [dW EXCEPT !.dWf = Accumulate(@, g.dWf),
                            !.dWi = Accumulate(@, g.dWi),
                            !.dWc = Accumulate(@, g.dWc),
                            !.dWo = Accumulate(@, g.dWo),
                            !.dbf = Accumulate(@, g.dbf),
                            !.dbi = Accumulate(@, g.dbi),
                            !.dbc = Accumulate(@, g.dbc),
                            !.dbo = Accumulate(@, g.dbo)]
        /\ calls' = Append(calls, [fn |-> "lstm_cell_backward", t |-> t,
                                   da_next |-> args.da_next, dc_next |-> args.dc_next,
                                   cache |-> args.cache, gradients |-> g])
        /\ t' = t - 1
        /\ UNCHANGED <<pc, forwardLocals, caches, da_prevt, dc_prevt, ret>>

\* A loop that adds the da_prev of the step before to the upstream gradient.
LstmBackwardStepChained ==
    /\ pc = "lstm_backward"
    /\ t >= 0
    /\ IF t >= Len(caches) \/ t >= TLen(da)
       THEN /\ Raise("lstm_backward", "IndexError")
            /\ UNCHANGED calls
       ELSE LstmBackwardIter(
                [LstmBackwardArgs(da, t, dc_prevt, caches) EXCEPT
                    !.da_next = IF gradients = NoDict THEN @
                                ELSE MatAdd(@, gradients.da_prev)])
    /\ UNCHANGED <<callerVars, da, fwd>>

\* one iteration of lstm_backward's loop over reversed(range(T_x))
LstmBackwardStep ==
    /\ pc = "lstm_backward"
    /\ t >= 0
    /\ IF t >= Len(caches) \/ t >= TLen(da)
       THEN \* caches[t] (or da[:, :, t]) out of range
            /\ Raise("lstm_backward", "IndexError")
            /\ UNCHANGED calls
       ELSE LstmBackwardIter(LstmBackwardArgs(da, t, dc_prevt, caches))
    /\ UNCHANGED <<callerVars, da, fwd>>

\* A driver that takes da0 from da_prevt, as rnn_backward does, and so returns
\* even when the loop produced no per-step dictionary.
LstmBackwardReturnFromDaPrevt ==
    /\ pc = "lstm_backward"
    /\ t < 0
    /\ ret' = [op |-> "lstm_backward", status |-> "ok", dx |-> dx,
               da0 |-> IF gradients = NoDict THEN da_prevt ELSE gradients.da_prev,
               dWf |-> dW.dWf, dbf |-> dW.dbf, dWi |-> dW.dWi, dbi |-> dW.dbi,
               dWc |-> dW.dWc, dbc |-> dW.dbc, dWo |-> dW.dWo, dbo |-> dW.dbo]
    /\ Leave
    /\ UNCHANGED <<callerVars, da, fwd, calls>>

\* lstm_backward after the loop: da0 = gradients["da_prev"]; return the dictionary
LstmBackwardReturn ==
    /\ pc = "lstm_backward"
    /\ t < 0
    /\ IF gradients = NoDict
       THEN \* the loop ran no iteration: the local gradients was never assigned
            Raise("lstm_backward", "UnboundLocalError")
       ELSE /\ ret' = [op |-> "lstm_backward", status |-> "ok", dx |-> dx,
                       da0 |-> gradients.da_prev,
                       dWf |-> dW.dWf, dbf |-> dW.dbf, dWi |-> dW.dWi, dbi |-> dW.dbi,
                       dWc |-> dW.dWc, dbc |-> dW.dbc, dWo |-> dW.dWo, dbo |-> dW.dbo]
            /\ Leave
    /\ UNCHANGED <<callerVars, da, fwd, calls>>

\* ------------------------------------------------------------ specification
Next ==
    \/ CallRnnCellForward
    \/ CallLstmCellForward
    \/ CallRnnForward
    \/ RnnForwardStep
    \/ RnnForwardReturn
    \/ CallLstmForward
    \/ LstmForwardStep
    \/ LstmForwardReturn
    \/ CallRnnBackward
    \/ RnnBackwardStep
    \/ RnnBackwardReturn
    \/ CallLstmBackward
    \/ LstmBackwardStep
    \/ LstmBackwardReturn

Spec == Init /\ [][Next]_vars

\* ------------------------------------------------------------------ claims
\* The driver opname is running, or was the last to run and has ended.
Running(opname) == pc = opname

Returned(opname) == pc = "idle" /\ ret.op = opname

ReturnedOk(opname) == Returned(opname) /\ ret.status = "ok"

\* x[:, :, 0 .. n-1]: the input with every slice from n on cut off
Prefix(xx, n) == [shape |-> <<xx.shape[1], xx.shape[2], n>>, s |-> SubSeq(xx.s, 1, n)]

RECURSIVE RnnHiddenAt(_, _, _, _)
\* The hidden state of step tt of the recurrence a<t> = cell(x<t>, a<t-1>), a<-1> = a0.
RnnHiddenAt(xx, a0v, p, tt) ==
    RnnCellForward(Slice(xx, tt),
                   IF tt = 0 THEN a0v ELSE RnnHiddenAt(xx, a0v, p, tt - 1), p).a_next

\* The hidden-state tensor of rnn_forward: the local a while it runs, the returned
\* a afterwards.
RnnHidden == IF Running("rnn_forward") THEN a ELSE ret.a

\* C1: rnn_forward calls rnn_cell_forward for t = 0, 1, 2, ... in this order; the
\* call of step t gets x[:,:,t] and, as previous hidden state, a0 when t = 0 and
\* otherwise the a_next returned by the call of step t-1; a[:,:,t] is the a_next of
\* step t, and it is determined by a0 and x[:,:,0..t] alone (no later slice).
C1_RnnForwardThreading ==
    (Running("rnn_forward") \/ Returned("rnn_forward")) =>
        /\ Running("rnn_forward") => Len(calls) = t
        /\ Returned("rnn_forward") => Len(calls) = TLen(x)
        /\ \A i \in 1..Len(calls) :
              /\ calls[i].fn = "rnn_cell_forward"
              /\ calls[i].t = i - 1
              /\ calls[i].xt = Slice(x, i - 1)
              /\ calls[i].a_prev = (IF i = 1 THEN a0 ELSE calls[i - 1].a_next)
              /\ Slice(RnnHidden, i - 1) = calls[i].a_next
              /\ Slice(RnnHidden, i - 1) = RnnHiddenAt(Prefix(x, i), a0, parameters, i - 1)

\* C1's case: a returned rnn_forward of at least two steps whose first step changed
\* the hidden state, from a non-zero a0.
C1_Witness ==
    /\ Returned("rnn_forward")
    /\ Len(calls) >= 2
    /\ a0 /= Zeros(NA, MB)
    /\ calls[1].a_next /= a0
    /\ calls[2].a_next /= calls[1].a_next

\* The hidden- and cell-state tensors of lstm_forward, running or returned.
LstmHidden == IF Running("lstm_forward") THEN a ELSE ret.a

LstmCellState == IF Running("lstm_forward") THEN c ELSE ret.c

\* C2: lstm_forward's call of step 0 gets (a0, all-zero cell state) whatever a0 is;
\* the call of every step t >= 1 gets the (a_next, c_next) returned by the call of
\* step t-1; a[:,:,t] and c[:,:,t] are the pair returned at step t.
C2_LstmForwardThreading ==
    (Running("lstm_forward") \/ Returned("lstm_forward")) =>
        /\ Running("lstm_forward") => Len(calls) = t
        /\ Returned("lstm_forward") => Len(calls) = TLen(x)
        /\ \A i \in 1..Len(calls) :
              /\ calls[i].fn = "lstm_cell_forward"
              /\ calls[i].t = i - 1
              /\ calls[i].xt = Slice(x, i - 1)
              /\ calls[i].a_prev = (IF i = 1 THEN a0 ELSE calls[i - 1].a_next)
              /\ calls[i].c_prev = (IF i = 1 THEN Zeros(Rows(a0), Cols(a0))
                                             ELSE calls[i - 1].c_next)
              /\ Slice(LstmHidden, i - 1) = calls[i].a_next
              /\ Slice(LstmCellState, i - 1) = calls[i].c_next

\* C2's case: a returned lstm_forward of at least two steps, from a non-zero a0,
\* whose first step produced a non-zero cell state.
C2_Witness ==
    /\ Returned("lstm_forward")
    /\ Len(calls) >= 2
    /\ a0 /= Zeros(NA, MB)
    /\ calls[1].c_next /= Zeros(NA, MB)
    /\ calls[2].c_prev = calls[1].c_next

\* C3: rnn_backward calls rnn_cell_backward for t = T_x-1, ..., 0 in this order
\* (T_x the time-length of da); the upstream gradient of step t is da[:,:,t] plus the
\* da_prev returned by the call of step t+1 (zero at the last step); the da0 it
\* returns after step 0 is the da_prev of the step-0 call.
C3_RnnBackwardThreading ==
    (Running("rnn_backward") \/ Returned("rnn_backward")) =>
        /\ Running("rnn_backward") => Len(calls) = TLen(da) - 1 - t
        /\ \A i \in 1..Len(calls) :
              /\ calls[i].fn = "rnn_cell_backward"
              /\ calls[i].t = TLen(da) - i
              /\ calls[i].cache = fwd.caches[1][calls[i].t + 1]
              /\ calls[i].da_next =
                    MatAdd(Slice(da, calls[i].t),
                           IF i = 1 THEN Zeros(da.shape[1], da.shape[2])
                                    ELSE calls[i - 1].gradients.da_prev)
        /\ (ReturnedOk("rnn_backward") /\ TLen(da) >= 1) =>
              /\ Len(calls) = TLen(da)
              /\ calls[Len(calls)].t = 0
              /\ ret.da0 = calls[Len(calls)].gradients.da_prev

\* C3's case: a returned rnn_backward of at least two steps whose last step handed
\* a non-zero da_prev to the step before it.
C3_Witness ==
    /\ ReturnedOk("rnn_backward")
    /\ Len(calls) >= 2
    /\ calls[1].gradients.da_prev /= Zeros(NA, MB)
    /\ ret.da0 /= Zeros(NA, MB)

\* C4: lstm_backward threads the cell-state gradient across the time boundary: the
\* dc_next of the call of the last step is zero, and the dc_next of the call of every
\* earlier step t is the dc_prev returned by the call of step t+1.
C4_LstmBackwardCellGradientThreaded ==
    (Running("lstm_backward") \/ Returned("lstm_backward")) =>
        \A i \in 1..Len(calls) :
            calls[i].dc_next = (IF i = 1 THEN Zeros(da.shape[1], da.shape[2])
                                         ELSE calls[i - 1].gradients.dc_prev)

RECURSIVE MatSum(_, _)
\* zero + ms[1] + ... + ms[n], elementwise
MatSum(ms, zero) ==
    IF Len(ms) = 0 THEN zero ELSE MatAdd(MatSum(SubSeq(ms, 1, Len(ms) - 1), zero), ms[Len(ms)])

RECURSIVE RefLstmStep(_, _, _)
\* Reference BPTT of the LSTM: the gradients of step tt when the step gets da[:,:,tt]
\* plus the da_prev of step tt+1, and the dc_prev of step tt+1 (both zero beyond
\* the last step).
RefLstmStep(dav, cachesv, tt) ==
    LET last == tt = TLen(dav) - 1
        zero == Zeros(dav.shape[1], dav.shape[2])
        nxt == RefLstmStep(dav, cachesv, tt + 1)
    IN  LstmCellBackward(MatAdd(Slice(dav, tt), IF last THEN zero ELSE nxt.da_prev),
                         IF last THEN zero ELSE nxt.dc_prev,
                         cachesv[tt + 1])

\* Entry key of a gradients dictionary g.
Grad(g, key) ==
    CASE key = "dWf" -> g.dWf [] key = "dWi" -> g.dWi [] key = "dWc" -> g.dWc
      [] key = "dWo" -> g.dWo [] key = "dbf" -> g.dbf [] key = "dbi" -> g.dbi
      [] key = "dbc" -> g.dbc [] key = "dbo" -> g.dbo
      [] key = "dWax" -> g.dWax [] key = "dWaa" -> g.dWaa [] key = "dba" -> g.dba

\* The shape-(n_a, n_a + n_x) or (n_a, 1) zero an LSTM parameter gradient starts from.
LstmParamZero(key) ==
    LET n_a == da.shape[1]
        n_x == Rows(fwd.caches[1][1][9])
    IN  IF key \in {"dWf", "dWi", "dWc", "dWo"} THEN Zeros(n_a, n_a + n_x)
                                                 ELSE Zeros(n_a, 1)

\* The sum over t = 0..T-1 of entry key of the reference BPTT's per-step gradients.
RefLstmSum(dav, cachesv, key) ==
    MatSum([k \in 1..TLen(dav) |-> Grad(RefLstmStep(dav, cachesv, k - 1), key)],
           LstmParamZero(key))

LstmParamKeys == {"dWf", "dWi", "dWc", "dWo", "dbf", "dbi", "dbc", "dbo"}

\* C5: for a sequence of length T (da and the cache list both of length T >= 1), the
\* parameter gradients lstm_backward returns are the sums over the T steps of the
\* per-step gradients of the reference BPTT with correctly chained da_prev and dc_prev.
C5_LstmBackwardSumsChainedSteps ==
    (ReturnedOk("lstm_backward") /\ TLen(da) = Len(fwd.caches[1])) =>
        \A key \in LstmParamKeys : Grad(ret, key) = RefLstmSum(da, fwd.caches[1], key)

RECURSIVE RefRnnStep(_, _, _)
\* Reference BPTT of the simple cell: the gradients of step tt when the step gets
\* da[:,:,tt] plus the da_prev of step tt+1 (zero beyond the last step).
RefRnnStep(dav, cachesv, tt) ==
    LET last == tt = TLen(dav) - 1
        zero == Zeros(dav.shape[1], dav.shape[2])
    IN  RnnCellBackward(MatAdd(Slice(dav, tt),
                               IF last THEN zero
                                       ELSE RefRnnStep(dav, cachesv, tt + 1).da_prev),
                        cachesv[tt + 1])

\* The shape-(n_a, n_x), (n_a, n_a), (n_a, 1) zero a parameter gradient starts from.
RnnParamZero(key) ==
    LET n_a == da.shape[1]
        n_x == Rows(fwd.caches[1][1][3])
    IN  IF key = "dWax" THEN Zeros(n_a, n_x)
        ELSE IF key = "dWaa" THEN Zeros(n_a, n_a) ELSE Zeros(n_a, 1)

RnnParamKeys == {"dWax", "dWaa", "dba"}

\* C6: dWax, dWaa and dba of rnn_backward start from zero, hold after every step the
\* sum of the gradients returned by the cell calls made so far, and are returned as
\* the sum over t = 0..T-1 of the per-step gradients of the chained reference BPTT.
C6_RnnBackwardSumsSteps ==
    /\ Running("rnn_backward") =>
          \A key \in RnnParamKeys :
              Grad(dW, key) = MatSum([i \in 1..Len(calls) |-> Grad(calls[i].gradients, key)],
                               RnnParamZero(key))
    /\ ReturnedOk("rnn_backward") =>
          \A key \in RnnParamKeys :
              Grad(ret, key) = MatSum([k \in 1..TLen(da) |->
                                    Grad(RefRnnStep(da, fwd.caches[1], k - 1), key)],
                                RnnParamZero(key))

\* C6's case: a returned rnn_backward of at least two steps, both with a non-zero
\* dWax, whose sum differs from either.
C6_Witness ==
    /\ ReturnedOk("rnn_backward")
    /\ Len(calls) >= 2
    /\ calls[1].gradients.dWax /= Zeros(NA, NX)
    /\ calls[2].gradients.dWax /= Zeros(NA, NX)
    /\ ret.dWax /= calls[2].gradients.dWax

\* C7: the hidden-state gradient lstm_backward passes to lstm_cell_backward at step t
\* is da[:,:,t], nothing added.
C7_LstmBackwardUpstreamIsDa ==
    (Running("lstm_backward") \/ Returned("lstm_backward")) =>
        \A i \in 1..Len(calls) :
            /\ calls[i].fn = "lstm_cell_backward"
            /\ calls[i].da_next = Slice(da, calls[i].t)

\* C7's case: a returned lstm_backward of at least two steps whose last step
\* produced a non-zero da_prev, which the step before it did not receive.
C7_Witness ==
    /\ ReturnedOk("lstm_backward")
    /\ Len(calls) >= 2
    /\ calls[1].gradients.da_prev /= Zeros(NA, MB)
    /\ calls[2].da_next = Slice(da, calls[2].t)

\* C8: with da of time-length 1 (and a first per-step cache to use), each backward
\* driver is one cell-backward call: rnn_backward returns the dxt, dWax, dWaa, dba of
\* rnn_cell_backward(da[:,:,0], caches[0]) and its da_prev as da0; lstm_backward returns
\* the dxt and the eight gate gradients of lstm_cell_backward(da[:,:,0], 0, caches[0])
\* and its da_prev as da0.
C8_LengthOneIsOneCellCall ==
    /\ (Returned("rnn_backward") /\ TLen(da) = 1 /\ Len(fwd.caches[1]) >= 1) =>
          LET g == RnnCellBackward(Slice(da, 0), fwd.caches[1][1])
          IN  /\ ret.status = "ok"
              /\ Len(calls) = 1
              /\ ret.dx.s = <<g.dxt>>
              /\ ret.dWax = g.dWax /\ ret.dWaa = g.dWaa /\ ret.dba = g.dba
              /\ ret.da0 = g.da_prev
    /\ (Returned("lstm_backward") /\ TLen(da) = 1 /\ Len(fwd.caches[1]) >= 1) =>
          LET g == LstmCellBackward(Slice(da, 0), Zeros(da.shape[1], da.shape[2]),
                                    fwd.caches[1][1])
          IN  /\ ret.status = "ok"
              /\ Len(calls) = 1
              /\ ret.dx.s = <<g.dxt>>
              /\ ret.dWf = g.dWf /\ ret.dWi = g.dWi /\ ret.dWc = g.dWc /\ ret.dWo = g.dWo
              /\ ret.dbf = g.dbf /\ ret.dbi = g.dbi /\ ret.dbc = g.dbc /\ ret.dbo = g.dbo
              /\ ret.da0 = g.da_prev

\* C8's case: rnn_backward returned for a da of time-length 1, with non-zero dWax,
\* dba and da0.
C8_Witness ==
    /\ ReturnedOk("rnn_backward")
    /\ TLen(da) = 1
    /\ ret.dWax /= Zeros(NA, NX)
    /\ ret.dba /= Zeros(NA, 1)
    /\ ret.da0 /= Zeros(NA, MB)

\* C9: a backward driver called with a da whose time-length differs from the number
\* of per-step caches of the forward pass (shorter or longer) aborts with an error
\* and returns no gradients.
C9_LengthMismatchAborts ==
    ((Returned("rnn_backward") \/ Returned("lstm_backward"))
        /\ TLen(da) /= Len(fwd.caches[1])) => ret.status /= "ok"

\* What C10 says lstm_backward returns for a da shorter than the forward pass: dx of
\* shape (n_x, m, T_da), da0 of shape (n_a, m), gate gradients of shape
\* (n_a, n_a + n_x) and (n_a, 1), from the cell calls of the caches 0..T_da-1 only.
LstmBackwardTruncated ==
    LET n_a == da.shape[1]
        m == da.shape[2]
        T_da == TLen(da)
        n_x == x.shape[1]
    IN  /\ ret.status = "ok"
        /\ ret.dx.shape = <<n_x, m, T_da>>
        /\ Len(ret.dx.s) = T_da
        /\ \A k \in 1..T_da : Rows(ret.dx.s[k]) = n_x /\ Cols(ret.dx.s[k]) = m
        /\ Rows(ret.da0) = n_a /\ Cols(ret.da0) = m
        /\ \A key \in {"dWf", "dWi", "dWc", "dWo"} :
              Rows(Grad(ret, key)) = n_a /\ Cols(Grad(ret, key)) = n_a + n_x
        /\ \A key \in {"dbf", "dbi", "dbc", "dbo"} :
              Rows(Grad(ret, key)) = n_a /\ Cols(Grad(ret, key)) = 1
        /\ Len(calls) = T_da
        /\ \A i \in 1..Len(calls) :
              /\ calls[i].t = T_da - i
              /\ calls[i].cache = fwd.caches[1][calls[i].t + 1]

\* C10 as stated: lstm_backward with a da of any time-length T_da < T_x completes
\* and returns the truncated gradients.
C10_ShorterDaCompletes ==
    (Returned("lstm_backward") /\ TLen(da) < Len(fwd.caches[1])) => LstmBackwardTruncated

\* C10, amended: lstm_backward with a da of time-length 1 <= T_da < T_x completes
\* and returns dx of shape (n_x, m, T_da), da0 of shape (n_a, m), gate gradients of
\* shape (n_a, n_a + n_x) and (n_a, 1), using the per-step caches 0..T_da-1 only.
C10_ShorterNonEmptyDaCompletes ==
    (Returned("lstm_backward") /\ 1 <= TLen(da) /\ TLen(da) < Len(fwd.caches[1])) =>
        LstmBackwardTruncated

\* C10's case: lstm_backward returned non-zero gradients for a da shorter than the
\* forward pass whose cache it was given.
C10_Witness ==
    /\ ReturnedOk("lstm_backward")
    /\ 1 <= TLen(da)
    /\ TLen(da) < Len(fwd.caches[1])
    /\ TLen(x) = Len(fwd.caches[1])
    /\ ret.dWi /= Zeros(NA, NA + NX)
    /\ ret.dx.s[1] /= Zeros(NX, MB)

\* The operands of the last direct cell-forward call have the shapes the
\* parameters ask for: xt (n_x, m), a_prev and c_prev (n_a, m), biases (n_a, 1).
CellShapesAgree ==
    LET call == calls[1]
        p == call.parameters
        m == Cols(call.xt)
    IN  IF call.fn = "rnn_cell_forward"
        THEN /\ Rows(call.xt) = Cols(p.Wax)
             /\ Rows(call.a_prev) = Cols(p.Waa) /\ Cols(call.a_prev) = m
             /\ Rows(p.ba) = Rows(p.Waa) /\ Cols(p.ba) = 1
        ELSE /\ Rows(call.xt) + Cols(p.Wy) = Cols(p.Wf)
             /\ Rows(call.a_prev) = Cols(p.Wy) /\ Cols(call.a_prev) = m
             /\ Rows(call.c_prev) = Cols(p.Wy) /\ Cols(call.c_prev) = m
             /\ Rows(p.bf) = Rows(p.Wf) /\ Cols(p.bf) = 1

ReturnedCell == Returned("rnn_cell_forward") \/ Returned("lstm_cell_forward")

\* C11: a cell-forward operation whose input slice, previous state or bias
\* disagrees in shape with the parameters (a size-1 batch or row dimension
\* included) aborts with a shape error and never returns a result.
C11_MismatchedOperandAborts ==
    (ReturnedCell /\ ~CellShapesAgree) => ret.status = "ValueError"

\* X is a tensor of shape (n, m, T): T slices, each of shape (n, m).
TensorShaped(X, n, m, T) ==
    /\ X.shape = <<n, m, T>>
    /\ Len(X.s) = T
    /\ \A k \in 1..T : Rows(X.s[k]) = n /\ Cols(X.s[k]) = m

\* Slices 0..n-1 of X are the values vals[1..n]; the later slices are still the
\* zeros of the initialisation.
WrittenUpTo(X, n, vals) ==
    \A k \in 1..Len(X.s) :
        X.s[k] = IF k <= n THEN vals[k] ELSE Zeros(X.shape[1], X.shape[2])

\* The a_next, yt_pred and c_next returned by the forward cell calls made so far.
CallsANext == [k \in 1..Len(calls) |-> calls[k].a_next]

CallsCNext == [k \in 1..Len(calls) |-> calls[k].c_next]

CallsYtPred ==
    [k \in 1..Len(calls) |->
        IF calls[k].fn = "rnn_cell_forward"
        THEN RnnCellForward(calls[k].xt, calls[k].a_prev, parameters).yt_pred
        ELSE LstmCellForward(calls[k].xt, calls[k].a_prev, calls[k].c_prev,
                             parameters).yt_pred]

\* C12: for x of shape (n_x, m, T), T >= 0, and an output weight of shape
\* (n_y, n_a), rnn_forward returns a of shape (n_a, m, T) and y_pred of shape
\* (n_y, m, T), lstm_forward also c of shape (n_a, m, T); slice t of each tensor
\* is written by step t (and by no other step).
C12_ForwardShapes ==
    LET m == x.shape[2]
        T == x.shape[3]
    IN  /\ Running("rnn_forward") =>
            /\ \A k \in 1..Len(calls) : calls[k].t = k - 1
            /\ WrittenUpTo(a, t, CallsANext)
            /\ WrittenUpTo(y_pred, t, CallsYtPred)
        /\ ReturnedOk("rnn_forward") =>
            /\ TensorShaped(ret.a, Cols(parameters.Wya), m, T)
            /\ TensorShaped(ret.y_pred, Rows(parameters.Wya), m, T)
            /\ Len(calls) = T
            /\ WrittenUpTo(ret.a, T, CallsANext)
            /\ WrittenUpTo(ret.y_pred, T, CallsYtPred)
        /\ Running("lstm_forward") =>
            /\ \A k \in 1..Len(calls) : calls[k].t = k - 1
            /\ WrittenUpTo(a, t, CallsANext)
            /\ WrittenUpTo(c, t, CallsCNext)
            /\ WrittenUpTo(y_pred, t, CallsYtPred)
        /\ ReturnedOk("lstm_forward") =>
            /\ TensorShaped(ret.a, Cols(parameters.Wy), m, T)
            /\ TensorShaped(ret.c, Cols(parameters.Wy), m, T)
            /\ TensorShaped(ret.y, Rows(parameters.Wy), m, T)
            /\ Len(calls) = T
            /\ WrittenUpTo(ret.a, T, CallsANext)
            /\ WrittenUpTo(ret.c, T, CallsCNext)
            /\ WrittenUpTo(ret.y, T, CallsYtPred)

\* lstm_forward has returned for an x of the greatest length tried, and its two
\* cell-state slices differ.
C12_Witness ==
    /\ ReturnedOk("lstm_forward")
    /\ TLen(x) = MaxT
    /\ TensorShaped(ret.c, NA, MB, MaxT)
    /\ TensorShaped(ret.y, NY, MB, MaxT)
    /\ ret.c.s[1] # ret.c.s[MaxT]
    /\ ret.a.s[1] # Zeros(NA, MB)

\* The number of fields of the per-step cache of lstm_cell_forward.
LstmCacheFields == 10

FwdCacheIntact ==
    fwd.kind # "none" =>
        /\ fwd.caches[2] = x
        /\ \A k \in 1..Len(fwd.caches[1]) :
              LET cache == fwd.caches[1][k]
              IN  /\ cache[Len(cache)] = parameters
                  /\ cache[Len(cache) - 1] = Slice(x, k - 1)
                  /\ k = 1 => cache[IF fwd.kind = "rnn" THEN 2 ELSE 3] = a0

\* A direct cell call has returned with its arguments as they were passed.
CellArgsIntact ==
    /\ ReturnedOk("rnn_cell_forward") =>
            ret.cache = <<ret.a_next, calls[1].a_prev, calls[1].xt, calls[1].parameters>>
    /\ ReturnedOk("lstm_cell_forward") =>
            /\ ret.cache[3] = calls[1].a_prev /\ ret.cache[4] = calls[1].c_prev
            /\ ret.cache[9] = calls[1].xt /\ ret.cache[10] = calls[1].parameters

\* C14: no operation modifies the parameter dictionary or a tensor in it, nor
\* the caller's x, a0, da or the cache passed in: every step of every call
\* leaves them as they were, so after any sequence of calls they hold the
\* values they had before.
C14_InputsAreNotModified ==
    [][/\ x' = x /\ a0' = a0 /\ parameters' = parameters
       /\ pc # "idle" => da' = da
       /\ fwd' # fwd => pc \in {"rnn_forward", "lstm_forward"} /\ pc' = "idle"
       /\ (pc \in {"rnn_backward", "lstm_backward"} /\ pc' = pc) =>
              caches' = caches /\ caches = fwd.caches[1]
       /\ FwdCacheIntact'
       /\ CellArgsIntact']_vars

\* rnn_backward has returned after a forward pass of two steps from a non-zero
\* a0, and the cache the caller holds still carries a0 and x.
C14_Witness ==
    /\ ReturnedOk("rnn_backward")
    /\ TLen(da) = MaxT
    /\ Len(fwd.caches[1]) = MaxT
    /\ a0 # Zeros(NA, MB)
    /\ fwd.caches[1][1][2] = a0
    /\ fwd.caches[2] = x

\* The cell-backward calls made so far by a driver given da of time-length T are
\* those of t = T-1, T-2, ..., each on caches[t].
BackwardCallsInOrder(T) ==
    \A k \in 1..Len(calls) :
        /\ calls[k].t = T - k
        /\ calls[k].cache = fwd.caches[1][T - k + 1]

\* Slice j of dxv, for every j at or above from, is the dxt returned by the call
\* of t = j; the slices below from are the zeros of the initialisation.
DxWrittenFrom(dxv, from, T) ==
    \A j \in 0..(T - 1) :
        Slice(dxv, j) = IF j >= from THEN calls[T - j].gradients.dxt
                        ELSE Zeros(dxv.shape[1], dxv.shape[2])

\* C15 as stated: in rnn_backward and lstm_backward with da of any time-length
\* T, each t in 0..T-1 is the subject of exactly one cell-backward call, the calls
\* being made in strictly decreasing order of t.
C15_EveryLengthVisitsEachStepOnce ==
    \A opname \in {"rnn_backward", "lstm_backward"} :
        Returned(opname) =>
            /\ \A tt \in 0..(TLen(da) - 1) :
                  Cardinality({k \in 1..Len(calls) : calls[k].t = tt}) = 1
            /\ \A k \in 2..Len(calls) : calls[k].t < calls[k - 1].t

\* C15 (amended): in rnn_backward and lstm_backward with da of time-length T not
\* above the number of per-step caches, each caches[t], t in 0..T-1, is passed to
\* the cell-backward operation exactly once, in strictly decreasing order of t,
\* and dx[:,:,t] is written exactly once, with the dxt returned by the call for
\* that t; at no moment of any call has a step been visited twice or out of order.
C15_BackwardVisitsEachStepOnce ==
    \A opname \in {"rnn_backward", "lstm_backward"} :
        /\ Running(opname) =>
            /\ Len(calls) = TLen(da) - 1 - t
            /\ BackwardCallsInOrder(TLen(da))
            /\ DxWrittenFrom(dx, t + 1, TLen(da))
        /\ (Returned(opname) /\ TLen(da) <= Len(fwd.caches[1])) =>
            /\ Len(calls) = TLen(da)
            /\ BackwardCallsInOrder(TLen(da))
            /\ ret.status = "ok" =>
                    /\ TLen(ret.dx) = TLen(da)
                    /\ DxWrittenFrom(ret.dx, 0, TLen(da))

\* lstm_backward has returned after two cell calls, of t = 1 and then t = 0, on
\* different per-step caches.
C15_Witness ==
    /\ ReturnedOk("lstm_backward")
    /\ TLen(da) = MaxT
    /\ Len(calls) = MaxT
    /\ calls[1].t = MaxT - 1
    /\ calls[MaxT].t = 0
    /\ calls[1].cache # calls[MaxT].cache
    /\ Slice(ret.dx, 0) = calls[MaxT].gradients.dxt

\* The gate derivatives dft, dit, dcct, dot of lstm_cell_backward.
LstmGateGradients(da_next, dc_next, cache) ==
    LET c_prev == cache[4]
        ft == cache[5]
        it == cache[6]
        cct == cache[7]
        ot == cache[8]
        tanhc == TanhM(cache[2])
        through == MatMulElem(MatMulElem(da_next, ot), OneMinus(Square(tanhc)))
    IN  [dot |-> MatMulElem(MatMulElem(MatMulElem(da_next, tanhc), ot), OneMinus(ot)),
         dcct |-> MatMulElem(
                      MatAdd(MatMulElem(dc_next, it),
                             MatMulElem(MatMulElem(MatMulElem(ot, OneMinus(Square(tanhc))),
                                                   it), da_next)),
                      OneMinus(Square(cct))),
         dit |-> MatMulElem(MatMulElem(MatMulElem(MatAdd(dc_next, through), cct), it),
                            OneMinus(it)),
         dft |-> MatMulElem(MatMulElem(MatMulElem(MatAdd(dc_next, through), c_prev), ft),
                            OneMinus(ft))]

\* The gradient with respect to the whole of concat: the four gates'
\* contributions W.T dgate, summed; row i comes from column i of the weights.
ConcatGradient(p, d) ==
    MatAdd(MatAdd(MatAdd(MatMul(Transpose(p.Wf), d.dft), MatMul(Transpose(p.Wi), d.dit)),
                  MatMul(Transpose(p.Wc), d.dcct)),
           MatMul(Transpose(p.Wo), d.dot))

\* The hidden block and the input block of W partition its columns.
SplitIsPartition(W, n_a) ==
    \A i \in 1..Rows(W) : ColsTo(W, n_a)[i] \o ColsFrom(W, n_a)[i] = W[i]

\* C16: lstm_cell_forward places a_prev in rows 0..n_a-1 and xt in rows
\* n_a..n_a+n_x-1 of concat; lstm_cell_backward computes da_prev from columns
\* 0..n_a-1 and dxt from columns n_a..n_a+n_x-1 of each of Wf, Wi, Wc, Wo,
\* summing the four gates: da_prev has shape (n_a, m), dxt has shape (n_x, m),
\* and every column is used for exactly one of them.
C16_SplitMatchesConcat ==
    /\ (Running("lstm_forward") \/ Returned("lstm_forward")) =>
        \A k \in 1..Len(calls) :
            LET n_a == Rows(calls[k].a_prev)
                n_x == Rows(calls[k].xt)
                concat == ConcatForward(calls[k].a_prev, calls[k].xt, n_a, n_x)
            IN  /\ Rows(concat) = n_a + n_x
                /\ \A i \in 1..n_a : concat[i] = calls[k].a_prev[i]
                /\ \A i \in 1..n_x : concat[n_a + i] = calls[k].xt[i]
                /\ concat = ConcatBackward(calls[k].a_prev, calls[k].xt)
    /\ (Running("lstm_backward") \/ Returned("lstm_backward")) =>
        \A k \in 1..Len(calls) :
            LET cache == calls[k].cache
                g == calls[k].gradients
                p == cache[10]
                n_a == Rows(cache[3])
                n_x == Rows(cache[9])
                m == Cols(cache[9])
                d == LstmGateGradients(calls[k].da_next, calls[k].dc_next, cache)
                dconcat == ConcatGradient(p, d)
            IN  /\ Rows(g.da_prev) = n_a /\ Cols(g.da_prev) = m
                /\ Rows(g.dxt) = n_x /\ Cols(g.dxt) = m
                \* rows 0..n_a-1 of the concat gradient are da_prev, the rest dxt
                /\ g.da_prev \o g.dxt = dconcat
                /\ \A W \in {p.Wf, p.Wi, p.Wc, p.Wo} : SplitIsPartition(W, n_a)

\* lstm_backward has made a cell call whose dxt and da_prev are not zero.
C16_Witness ==
    /\ Running("lstm_backward")
    /\ Len(calls) >= 1
    /\ calls[1].gradients.dxt # Zeros(NX, MB)
    /\ calls[1].gradients.da_prev # Zeros(NA, MB)
    /\ Rows(calls[1].gradients.dxt) = NX
    /\ Rows(calls[1].gradients.da_prev) = NA

\* A backward driver has ended a call with da of time-length 0 on a non-empty
\* list of per-step caches.
EndedOnEmptyDa(opname) ==
    Returned(opname) /\ TLen(da) = 0 /\ Len(fwd.caches[1]) >= 1

\* C17: lstm_backward returns a gradient record only when da has time-length at
\* least 1; with time-length 0 and a non-empty cache list its loop makes no cell
\* call and reading da0 from the per-step dictionary that was never produced
\* raises, whereas rnn_backward then returns all-zero dx, dWax, dWaa, dba, da0.
C17_EmptyDaAbortsLstmOnly ==
    /\ ReturnedOk("lstm_backward") => TLen(da) >= 1
    /\ EndedOnEmptyDa("lstm_backward") =>
        /\ ret.status = "UnboundLocalError"
        /\ calls = <<>>
    /\ EndedOnEmptyDa("rnn_backward") =>
        LET x1 == fwd.caches[1][1][3]
            n_a == da.shape[1]
            n_x == Rows(x1)
            m == Cols(x1)
        IN  /\ ret.status = "ok"
            /\ calls = <<>>
            /\ ret.dx = Zeros3(n_x, m, 0)
            /\ ret.dWax = Zeros(n_a, n_x)
            /\ ret.dWaa = Zeros(n_a, n_a)
            /\ ret.dba = Zeros(n_a, 1)
            /\ ret.da0 = Zeros(n_a, m)

\* lstm_backward has raised on a da of time-length 0 after a forward pass of
\* two steps.
C17_Witness ==
    /\ EndedOnEmptyDa("lstm_backward")
    /\ Len(fwd.caches[1]) = MaxT
    /\ ret.status = "UnboundLocalError"

=============================================================================
